---------------------------- MODULE Spec2Model ----------------------------
(***************************************************************************)
(* Driver for the Waveshare 2.13" B V4 e-paper panel (epd2in13b_v4).       *)
(*                                                                         *)
(* The driver is modelled together with the two things it talks to: the   *)
(* bus (the sequence of resets, busy-waits, command bytes and data bytes   *)
(* it emits) and the controller behind the bus (address window, write      *)
(* cursor, two RAM banks, busy pin).  Every public operation is compiled   *)
(* to the straight-line list of bus instructions its code performs; one    *)
(* step of the model performs one instruction, which may fail when it is   *)
(* a bus write, and a busy-wait only completes when the busy pin is idle.  *)
(***************************************************************************)
EXTENDS Integers, Sequences, FiniteSets

VARIABLES
    created,            \* a driver instance exists (new has returned Ok)
    background_color,   \* Epd2in13b.background_color
    power,              \* controller power state of the spec
    busy,               \* level of the busy pin: TRUE = high = busy
    reg,                \* controller: command whose payload is being received
    argn,               \* controller: payload bytes received for reg
    win,                \* controller: address window, in RAM bytes / rows
    cur,                \* controller: write cursor, in RAM bytes / rows
    bw,                 \* controller: achromatic RAM bank (0x24)
    red,                \* controller: chromatic RAM bank (0x26)
    duc2,               \* controller: staged display-update-control-2 byte
    cfg,                \* controller: commands of the init configuration
                        \* received in full since the last reset
    op,                 \* the public operation in progress or last called
    pre,                \* power state, window, cursor and RAM when op was called
    prog,               \* instructions the operation has still to perform
    result,             \* "none", "running", "ok", "err" or "panic"
    ret,                \* value returned by the last getter: a number or a colour
    trace,              \* bus events of the current operation, in order
    mon,                \* history of the bus across operations (summary)
    nops,               \* operations called so far
    nfaults,            \* bus faults injected so far
    args,               \* an encoder or helper called on its own: its arguments
    out,                \* what it returned
    overflow_checks     \* the build panics on integer overflow (else it wraps)

vars == << created, background_color, power, busy, reg, argn, win, cur, bw,
           red, duc2, cfg, op, pre, prog, result, ret, trace, mon, nops,
           nfaults, args, out, overflow_checks >>

---------------------------------------------------------------------------
(* Bounds of the exploration *)

MaxOps == 3
MaxFaults == 1

---------------------------------------------------------------------------
(* Program constants *)

WIDTH == 122
HEIGHT == 250
\* a default of black instead of white
DEFAULT_BACKGROUND_COLOR_black == "Black"

DEFAULT_BACKGROUND_COLOR == "White"

\* A panel whose busy pin is active low
IS_BUSY_LOW_active_low == TRUE

IS_BUSY_LOW == FALSE

TriColor == {"Black", "White", "Chromatic"}

\* command.rs, enum Command
DriverOutputControl == 1
DeepSleepModeCmd == 16
DataEntryModeSetting == 17
SwReset == 18
TemperatureSensorRead == 24
MasterActivation == 32
DisplayUpdateControl1 == 33
DisplayUpdateControl2Cmd == 34
WriteRam == 36
WriteRamRed == 38
WriteLutRegister == 50
BorderWaveformControl == 60
SetRamXAddressStartEndPosition == 68
SetRamYAddressStartEndPosition == 69
SetRamXAddressCounter == 78
SetRamYAddressCounter == 79

U8(x) == x % 256
U16(x) == x % 65536

\* A u32 is kept as its two 16-bit halves, so that every value up to
\* u32::MAX and every intermediate result below stays inside the integers
\* the checker computes with.
u32(n) == [hi |-> n \div 65536, lo |-> n % 65536]
u32_MAX == [hi |-> 65535, lo |-> 65535]

\* u32::overflowing_add: the wrapped sum and whether it overflowed
overflowing_add(a, b) ==
    LET lo == a.lo + b.lo
        hi == a.hi + b.hi + (lo \div 65536)
    IN  [v |-> [hi |-> hi % 65536, lo |-> lo % 65536],
         overflow |-> hi >= 65536]

\* u32::to_le_bytes
to_le_bytes(a) == << a.lo % 256, a.lo \div 256, a.hi % 256, a.hi \div 256 >>

\* Column k (from 1) of the schoolbook product of two byte strings
MulColumn(A, B, k) ==
    LET RECURSIVE Sum(_)
        Sum(i) == IF i > 4 THEN 0
                  ELSE (IF k + 1 - i \in 1..4 THEN A[i] * B[k + 1 - i] ELSE 0)
                       + Sum(i + 1)
    IN  Sum(1)

\* Carry out of column k of the product
RECURSIVE MulCarry(_, _, _)
MulCarry(A, B, k) ==
    IF k = 0 THEN 0 ELSE (MulColumn(A, B, k) + MulCarry(A, B, k - 1)) \div 256

\* The full 64-bit product of two u32, as eight bytes, low byte first
widening_mul(a, b) ==
    LET A == to_le_bytes(a)
        B == to_le_bytes(b)
    IN  [k \in 1..8 |-> (MulColumn(A, B, k) + MulCarry(A, B, k - 1)) % 256]

\* u32::overflowing_mul: the wrapped product and whether it overflowed
overflowing_mul(a, b) ==
    LET P == widening_mul(a, b)
    IN  [v |-> [hi |-> P[3] + 256 * P[4], lo |-> P[1] + 256 * P[2]],
         overflow |-> \E k \in 5..8 : P[k] # 0]

\* a / d on u32, for a divisor d of at most 15 bits
u32_div(a, d) ==
    [hi |-> a.hi \div d, lo |-> ((a.hi % d) * 65536 + a.lo) \div d]

\* a >> k on u32, for k <= 16
shr(a, k) ==
    [hi |-> a.hi \div (2 ^ k),
     lo |-> (a.hi % (2 ^ k)) * (2 ^ (16 - k)) + a.lo \div (2 ^ k)]

\* a as u8
as_u8(a) == a.lo % 256

\* a as usize: usize is at least as wide as u32 on the targets of the
\* driver, so the cast keeps the value; n is a length (buffer.len())
as_usize_is(a, n) == a = u32(n)

\* crate::buffer_len: bytes of one plane, rows padded to whole bytes
buffer_len(w, h) == ((w + 7) \div 8) * h

PlaneSize == buffer_len(WIDTH, HEIGHT)
RowLen == (WIDTH + 7) \div 8

\* TriColor::get_byte_value: the byte that fills eight pixels with a colour
get_byte_value(c) == IF c = "White" THEN 255 ELSE 0


---------------------------------------------------------------------------
(* Bit-packed configuration encoders (command.rs) *)

Bit(b, flag) == IF flag THEN 2 ^ b ELSE 0

\* to_bytes that sets a flag bit when the flag is true
DriverOutput_to_bytes_flags_plain(o) ==
    << U8(o.width), U8(o.width \div 256),
       Bit(0, o.scan_dir_incr) + Bit(1, o.scan_g0_is_first)
           + Bit(2, o.scan_is_linear) >>

\* DriverOutput::to_bytes
DriverOutput_to_bytes(o) ==
    << U8(o.width), U8(o.width \div 256),
       Bit(0, ~o.scan_dir_incr) + Bit(1, ~o.scan_g0_is_first)
           + Bit(2, ~o.scan_is_linear) >>

BorderWaveFormVbd == [Gs |-> 0, FixLevel |-> 1, Vcom |-> 2]
BorderWaveFormFixLevel == [Vss |-> 0, Vsh1 |-> 1, Vsl |-> 2, Vsh2 |-> 3]
BorderWaveFormGs == [Lut0 |-> 0, Lut1 |-> 1, Lut2 |-> 2, Lut3 |-> 3]

\* to_u8 with the fix level in bits 2..4
BorderWaveForm_to_u8_fix_level_low(b) ==
    BorderWaveFormVbd[b.vbd] * 64 + BorderWaveFormFixLevel[b.fix_level] * 4
        + BorderWaveFormGs[b.gs_trans]

\* BorderWaveForm::to_u8: bits 6..8, 4..6 and 0..2 of a zero byte
BorderWaveForm_to_u8(b) ==
    BorderWaveFormVbd[b.vbd] * 64 + BorderWaveFormFixLevel[b.fix_level] * 16
        + BorderWaveFormGs[b.gs_trans]

DataEntryModeIncr ==
    [XDecrYDecr |-> 0, XIncrYDecr |-> 1, XDecrYIncr |-> 2, XIncrYIncr |-> 3]
DataEntryModeDir == [XDir |-> 0, YDir |-> 4]

\* Bit of the display-update-control-2 byte that each action sets
DucBit ==
    [disable_clock |-> 0, disable_analog |-> 1, display |-> 2,
     load_lut |-> 4, load_temp |-> 5, enable_analog |-> 6, enable_clock |-> 7]

HasBit(v, b) == (v \div (2 ^ b)) % 2 = 1

\* DisplayUpdateControl2::new() followed by the chained actions, in order:
\* each action sets its bit (setting a bit twice leaves it set)
RECURSIVE DisplayUpdateControl2(_)
DisplayUpdateControl2(actions) ==
    IF actions = << >> THEN 0
    ELSE LET rest == DisplayUpdateControl2(SubSeq(actions, 1, Len(actions) - 1))
             b == DucBit[actions[Len(actions)]]
         IN IF HasBit(rest, b) THEN rest ELSE rest + 2 ^ b

DeepSleepMode == [Normal |-> 0]

LutLen == 5
LUT_FULL_UPDATE == [i \in 1..LutLen |-> 128 + i]
LUT_PARTIAL_UPDATE == [i \in 1..LutLen |-> 64 + i]

---------------------------------------------------------------------------
(* Bus instructions (interface.rs) *)

\* t: the kind; c: the opcode; d: the payload; q: the result of the write is
\* handed to the caller (every write of this driver is: ? or a tail call)
Reset == [t |-> "reset", c |-> 0, d |-> << >>, q |-> TRUE]
Wait == [t |-> "wait", c |-> 0, d |-> << >>, q |-> TRUE]
Cmd(command) == [t |-> "cmd", c |-> command, d |-> << >>, q |-> TRUE]
Data(bytes) == [t |-> "data", c |-> 0, d |-> bytes, q |-> TRUE]

\* DisplayInterface::cmd_with_data: the opcode, then the payload
interface_cmd_with_data(command, bytes) == << Cmd(command), Data(bytes) >>

\* DisplayInterface::data_x_times: the same byte, repetitions times
interface_data_x_times(val, repetitions) ==
    << Data([i \in 1..repetitions |-> val]) >>

---------------------------------------------------------------------------
(* Private helpers of Epd2in13b (mod.rs, impl Epd2in13b) *)

\* command whose error is dropped (let _ = ...) instead of returned
command_swallowed(c) == << [Cmd(c) EXCEPT !.q = FALSE] >>

command(c) == << Cmd(c) >>

cmd_with_data(c, bytes) == interface_cmd_with_data(c, bytes)

wait_until_idle == << Wait >>

set_border_waveform(borderwaveform) ==
    cmd_with_data(BorderWaveformControl, << BorderWaveForm_to_u8(borderwaveform) >>)

set_display_update_control_2(value) ==
    cmd_with_data(DisplayUpdateControl2Cmd, << value >>)

set_sleep_mode(mode) == cmd_with_data(DeepSleepModeCmd, << DeepSleepMode[mode] >>)

set_driver_output(output) ==
    cmd_with_data(DriverOutputControl, DriverOutput_to_bytes(output))

set_data_entry_mode(counter_incr_mode, counter_direction) ==
    \* the two values occupy disjoint bits, so | is +
    cmd_with_data(DataEntryModeSetting,
        << DataEntryModeIncr[counter_incr_mode] + DataEntryModeDir[counter_direction] >>)

\* set_ram_area that rounds the end of the X range up to the next byte
set_ram_area_round_up(start_x, start_y, end_x, end_y) ==
    cmd_with_data(SetRamXAddressStartEndPosition,
                  << as_u8(shr(start_x, 3)),
                     as_u8(shr(overflowing_add(end_x, u32(7)).v, 3)) >>)
    \o cmd_with_data(SetRamYAddressStartEndPosition,
                  << as_u8(start_y), as_u8(shr(start_y, 8)),
                     as_u8(end_y), as_u8(shr(end_y, 8)) >>)

set_ram_area(start_x, start_y, end_x, end_y) ==
    cmd_with_data(SetRamXAddressStartEndPosition,
                  << as_u8(shr(start_x, 3)), as_u8(shr(end_x, 3)) >>)
    \o cmd_with_data(SetRamYAddressStartEndPosition,
                  << as_u8(start_y), as_u8(shr(start_y, 8)),
                     as_u8(end_y), as_u8(shr(end_y, 8)) >>)

set_ram_address_counters(x, y) ==
    wait_until_idle
    \o cmd_with_data(SetRamXAddressCounter, << as_u8(shr(x, 3)) >>)
    \o cmd_with_data(SetRamYAddressCounter, << as_u8(y), as_u8(shr(y, 8)) >>)

---------------------------------------------------------------------------
(* The operations of the driver, each as the list of bus instructions its  *)
(* code performs.  Every fallible call in the code is followed by ?, so a  *)
(* failed write ends the operation and nothing after it is performed.      *)

Panic == [t |-> "panic", c |-> 0, d |-> << >>, q |-> TRUE]

\* assert!(cond): aborts the process when cond is false
assert(cond) == IF cond THEN << >> ELSE << Panic >>

\* + and * on u32: r is the result of the overflowing operation.  A build
\* with overflow checks (the default of a debug build) aborts the process
\* when the operation overflowed; a build without them (the default of a
\* release build) goes on with the wrapped value r.v.
arith(r) == IF overflow_checks /\ r.overflow THEN << Panic >> ELSE << >>

\* init that does not pulse the reset pin
init_no_reset ==
    wait_until_idle
    \o command(SwReset)
    \o wait_until_idle
    \o set_driver_output([scan_is_linear |-> TRUE, scan_g0_is_first |-> TRUE,
                          scan_dir_incr |-> TRUE, width |-> U16(HEIGHT - 1)])
    \o set_data_entry_mode("XIncrYIncr", "XDir")
    \o set_ram_area(u32(0), u32(0), u32(WIDTH - 1), u32(HEIGHT - 1))
    \o set_ram_address_counters(u32(0), u32(0))
    \o set_border_waveform([vbd |-> "Gs", fix_level |-> "Vss", gs_trans |-> "Lut3"])
    \o interface_cmd_with_data(TemperatureSensorRead, << 128 >>)
    \o interface_cmd_with_data(DisplayUpdateControl1, << 128, 128 >>)
    \o wait_until_idle

\* init with the border waveform byte 0x05 of the commented-out code
init_border_05 ==
    << Reset >>
    \o wait_until_idle
    \o command(SwReset)
    \o wait_until_idle
    \o set_driver_output([scan_is_linear |-> TRUE, scan_g0_is_first |-> TRUE,
                          scan_dir_incr |-> TRUE, width |-> U16(HEIGHT - 1)])
    \o set_data_entry_mode("XIncrYIncr", "XDir")
    \o set_ram_area(u32(0), u32(0), u32(WIDTH - 1), u32(HEIGHT - 1))
    \o set_ram_address_counters(u32(0), u32(0))
    \o interface_cmd_with_data(BorderWaveformControl, << 5 >>)
    \o interface_cmd_with_data(TemperatureSensorRead, << 128 >>)
    \o interface_cmd_with_data(DisplayUpdateControl1, << 128, 128 >>)
    \o wait_until_idle

\* InternalWiAdditions::init
init ==
    << Reset >>
    \o wait_until_idle
    \o command(SwReset)
    \o wait_until_idle
    \o set_driver_output([scan_is_linear |-> TRUE, scan_g0_is_first |-> TRUE,
                          scan_dir_incr |-> TRUE, width |-> U16(HEIGHT - 1)])
    \o set_data_entry_mode("XIncrYIncr", "XDir")
    \o set_ram_area(u32(0), u32(0), u32(WIDTH - 1), u32(HEIGHT - 1))
    \o set_ram_address_counters(u32(0), u32(0))
    \o set_border_waveform([vbd |-> "Gs", fix_level |-> "Vss", gs_trans |-> "Lut3"])
    \o interface_cmd_with_data(TemperatureSensorRead, << 128 >>)
    \o interface_cmd_with_data(DisplayUpdateControl1, << 128, 128 >>)
    \o wait_until_idle

update_achromatic_frame(black) ==
    wait_until_idle \o << Cmd(WriteRam) >> \o << Data(black) >>

\* update_chromatic_frame of the legacy revision: the plane is sent inverted
update_chromatic_frame_inverted(chromatic) ==
    wait_until_idle \o << Cmd(WriteRamRed) >>
    \o << Data([i \in 1..Len(chromatic) |-> 255 - chromatic[i]]) >>
    \o wait_until_idle

update_chromatic_frame(chromatic) ==
    wait_until_idle \o << Cmd(WriteRamRed) >> \o << Data(chromatic) >>
    \o wait_until_idle

update_color_frame(black, chromatic) ==
    update_achromatic_frame(black) \o update_chromatic_frame(chromatic)

new == init

wake_up == init

\* sleep that does not wait for the controller first
sleep_no_initial_wait ==
    set_display_update_control_2(
        DisplayUpdateControl2(<< "enable_analog", "enable_clock",
                                 "disable_analog", "disable_clock" >>))
    \o command(MasterActivation)
    \o set_sleep_mode("Normal")

\* sleep that also stages the display action before master activation
sleep_staging_display ==
    wait_until_idle
    \o set_display_update_control_2(
           DisplayUpdateControl2(<< "enable_analog", "enable_clock", "display",
                                    "disable_analog", "disable_clock" >>))
    \o command(MasterActivation)
    \o set_sleep_mode("Normal")

sleep ==
    wait_until_idle
    \o set_display_update_control_2(
           DisplayUpdateControl2(<< "enable_analog", "enable_clock",
                                    "disable_analog", "disable_clock" >>))
    \o command(MasterActivation)
    \o set_sleep_mode("Normal")

\* update_frame with the length check loosened to "at most a plane"
update_frame_at_most(buffer, bg) ==
    assert(Len(buffer) <= buffer_len(WIDTH, HEIGHT))
    \o set_ram_area(u32(0), u32(0), u32(WIDTH - 1), u32(HEIGHT - 1))
    \o set_ram_address_counters(u32(0), u32(0))
    \o cmd_with_data(WriteRam, buffer)
    \o set_ram_area(u32(0), u32(0), u32(WIDTH - 1), u32(HEIGHT - 1))
    \o set_ram_address_counters(u32(0), u32(0))
    \o command(WriteRamRed)
    \o interface_data_x_times(get_byte_value(bg), buffer_len(WIDTH, HEIGHT))

\* update_frame that relies on the window and counters init has programmed
update_frame_no_window(buffer, bg) ==
    assert(Len(buffer) = buffer_len(WIDTH, HEIGHT))
    \o cmd_with_data(WriteRam, buffer)
    \o command(WriteRamRed)
    \o interface_data_x_times(get_byte_value(bg), buffer_len(WIDTH, HEIGHT))

update_frame(buffer, bg) ==
    assert(Len(buffer) = buffer_len(WIDTH, HEIGHT))
    \o set_ram_area(u32(0), u32(0), u32(WIDTH - 1), u32(HEIGHT - 1))
    \o set_ram_address_counters(u32(0), u32(0))
    \o cmd_with_data(WriteRam, buffer)
    \o set_ram_area(u32(0), u32(0), u32(WIDTH - 1), u32(HEIGHT - 1))
    \o set_ram_address_counters(u32(0), u32(0))
    \o command(WriteRamRed)
    \o interface_data_x_times(get_byte_value(bg), buffer_len(WIDTH, HEIGHT))

\* update_partial_frame with the cursor reset to the panel origin
update_partial_frame_origin(buffer, x, y, width, height) ==
    LET area == overflowing_mul(width, height)
        end_x == overflowing_add(x, width)
        end_y == overflowing_add(y, height)
    IN  arith(area)
        \o assert(as_usize_is(u32_div(area.v, 8), Len(buffer)))
        \o arith(end_x) \o arith(end_y)
        \o set_ram_area(x, y, end_x.v, end_y.v)
        \o set_ram_address_counters(u32(0), u32(0))
        \o cmd_with_data(WriteRam, buffer)
        \o set_ram_area(x, y, end_x.v, end_y.v)
        \o set_ram_address_counters(u32(0), u32(0))
        \o cmd_with_data(WriteRamRed, buffer)

\* width * height is computed first, x + width and y + height when the
\* arguments of the first set_ram_area are evaluated (the second call adds
\* the same values again)
update_partial_frame(buffer, x, y, width, height) ==
    LET area == overflowing_mul(width, height)
        end_x == overflowing_add(x, width)
        end_y == overflowing_add(y, height)
    IN  arith(area)
        \o assert(as_usize_is(u32_div(area.v, 8), Len(buffer)))
        \o arith(end_x) \o arith(end_y)
        \o set_ram_area(x, y, end_x.v, end_y.v)
        \o set_ram_address_counters(x, y)
        \o cmd_with_data(WriteRam, buffer)
        \o set_ram_area(x, y, end_x.v, end_y.v)
        \o set_ram_address_counters(x, y)
        \o cmd_with_data(WriteRamRed, buffer)

\* display_frame that returns without waiting for the refresh to end
display_frame_no_wait ==
    set_display_update_control_2(
        DisplayUpdateControl2(<< "enable_clock", "enable_analog", "load_lut",
                                 "load_temp", "display", "disable_analog",
                                 "disable_clock" >>))
    \o command(MasterActivation)

display_frame ==
    set_display_update_control_2(
        DisplayUpdateControl2(<< "enable_clock", "enable_analog", "load_lut",
                                 "load_temp", "display", "disable_analog",
                                 "disable_clock" >>))
    \o command(MasterActivation)
    \o wait_until_idle

\* update_and_display_frame that forgets to display
update_and_display_frame_no_display(buffer, bg) ==
    update_frame(buffer, bg)

update_and_display_frame(buffer, bg) ==
    update_frame(buffer, bg) \o display_frame

\* clear_frame that fills WIDTH * HEIGHT / 8 bytes, not whole rows
clear_frame_unpadded(bg) ==
    LET color == get_byte_value(bg)
    IN  set_ram_area(u32(0), u32(0), u32(WIDTH - 1), u32(HEIGHT - 1))
        \o set_ram_address_counters(u32(0), u32(0))
        \o command(WriteRam)
        \o interface_data_x_times(color, (WIDTH * HEIGHT) \div 8)
        \o set_ram_area(u32(0), u32(0), u32(WIDTH - 1), u32(HEIGHT - 1))
        \o set_ram_address_counters(u32(0), u32(0))
        \o command(WriteRamRed)
        \o interface_data_x_times(color, (WIDTH * HEIGHT) \div 8)

clear_frame(bg) ==
    LET color == get_byte_value(bg)
    IN  set_ram_area(u32(0), u32(0), u32(WIDTH - 1), u32(HEIGHT - 1))
        \o set_ram_address_counters(u32(0), u32(0))
        \o command(WriteRam)
        \o interface_data_x_times(color, buffer_len(WIDTH, HEIGHT))
        \o set_ram_area(u32(0), u32(0), u32(WIDTH - 1), u32(HEIGHT - 1))
        \o set_ram_address_counters(u32(0), u32(0))
        \o command(WriteRamRed)
        \o interface_data_x_times(color, buffer_len(WIDTH, HEIGHT))

set_lut(refresh_rate) ==
    LET buffer == IF refresh_rate = "Quick" THEN LUT_PARTIAL_UPDATE
                  ELSE LUT_FULL_UPDATE
    IN  cmd_with_data(WriteLutRegister, buffer)

width == WIDTH

height == HEIGHT

---------------------------------------------------------------------------
(* The controller behind the bus.  A RAM bank holds the plane of the panel: *)
(* RowLen bytes per row, HEIGHT rows, byte (xb, y) at index y*RowLen+xb+1.  *)
(* Window and cursor are in RAM bytes (X) and rows (Y).  The data entry     *)
(* mode is the one init programs: X increments first, then Y, and the       *)
(* cursor wraps inside the window.  Cells of the window that lie outside    *)
(* the panel take a data byte like any other cell and store nothing.        *)

RamCmds == {WriteRam, WriteRamRed}

InWindow(w, x, y) == w.xs <= x /\ x <= w.xe /\ w.ys <= y /\ y <= w.ye

WinW(w) == IF w.xe >= w.xs THEN w.xe - w.xs + 1 ELSE 1
WinH(w) == IF w.ye >= w.ys THEN w.ye - w.ys + 1 ELSE 1
WinCells(w) == WinW(w) * WinH(w)

\* Position of the cursor in the window's row-major order; a cursor left
\* outside the window (possible only after a failed operation) restarts at
\* the window origin.
CurIndex(w, c) ==
    IF InWindow(w, c.x, c.y) THEN (c.y - w.ys) * WinW(w) + (c.x - w.xs) ELSE 0

\* The bank after the bytes d are written from cursor c in window w:
\* byte j (from 0) goes to cell (CurIndex + j) mod WinCells, later bytes
\* overwrite earlier ones.
RamWrite(bank, d, w, c) ==
    LET n == Len(d)
        ww == WinW(w)
        m == WinCells(w)
        c0 == CurIndex(w, c)
    IN  IF n = 0 THEN bank
        ELSE [a \in 1..PlaneSize |->
                LET xb == (a - 1) % RowLen
                    y == (a - 1) \div RowLen
                IN  IF ~InWindow(w, xb, y) THEN bank[a]
                    ELSE LET i == (y - w.ys) * ww + (xb - w.xs)
                             j0 == (i - c0) % m
                         IN  IF j0 >= n THEN bank[a]
                             ELSE d[j0 + m * ((n - 1 - j0) \div m) + 1]]

CurAfter(n, w, c) ==
    LET c1 == (CurIndex(w, c) + n) % WinCells(w)
    IN  IF n = 0 THEN c
        ELSE [x |-> w.xs + (c1 % WinW(w)), y |-> w.ys + (c1 \div WinW(w))]

SetLo(v, b) == (v \div 256) * 256 + b
SetHi(v, b) == (v % 256) + 256 * b

\* One payload byte b, the idx-th (from 0) of the command in S.reg
RegByte(S, idx, b) ==
    CASE S.reg = SetRamXAddressStartEndPosition /\ idx = 0 ->
            [S EXCEPT !.win.xs = b, !.mon.cx = FALSE, !.mon.cy = FALSE]
      [] S.reg = SetRamXAddressStartEndPosition /\ idx = 1 ->
            [S EXCEPT !.win.xe = b, !.mon.cx = FALSE, !.mon.cy = FALSE]
      [] S.reg = SetRamYAddressStartEndPosition /\ idx = 0 ->
            [S EXCEPT !.win.ys = SetLo(@, b), !.mon.cx = FALSE, !.mon.cy = FALSE]
      [] S.reg = SetRamYAddressStartEndPosition /\ idx = 1 ->
            [S EXCEPT !.win.ys = SetHi(@, b), !.mon.cx = FALSE, !.mon.cy = FALSE]
      [] S.reg = SetRamYAddressStartEndPosition /\ idx = 2 ->
            [S EXCEPT !.win.ye = SetLo(@, b), !.mon.cx = FALSE, !.mon.cy = FALSE]
      [] S.reg = SetRamYAddressStartEndPosition /\ idx = 3 ->
            [S EXCEPT !.win.ye = SetHi(@, b), !.mon.cx = FALSE, !.mon.cy = FALSE]
      [] S.reg = SetRamXAddressCounter /\ idx = 0 ->
            [S EXCEPT !.cur.x = b, !.mon.cx = (b = S.win.xs)]
      [] S.reg = SetRamYAddressCounter /\ idx = 0 ->
            [S EXCEPT !.cur.y = SetLo(@, b), !.mon.cy = FALSE]
      [] S.reg = SetRamYAddressCounter /\ idx = 1 ->
            [S EXCEPT !.cur.y = SetHi(@, b),
                      !.mon.cy = (SetHi(S.cur.y, b) = S.win.ys)]
      [] S.reg = DisplayUpdateControl2Cmd /\ idx = 0 ->
            [S EXCEPT !.duc2 = b]
      [] S.reg = DeepSleepModeCmd /\ idx = 0 ->
            [S EXCEPT !.power = "Sleeping"]
      [] OTHER -> S

\* The configuration init sends after the reset pulse: each command and the
\* length of its payload
InitCmds ==
    {SwReset, DriverOutputControl, DataEntryModeSetting,
     SetRamXAddressStartEndPosition, SetRamYAddressStartEndPosition,
     SetRamXAddressCounter, SetRamYAddressCounter, BorderWaveformControl,
     TemperatureSensorRead, DisplayUpdateControl1}

PayloadLen(c) ==
    CASE c = DriverOutputControl -> 3
      [] c = SetRamXAddressStartEndPosition -> 2
      [] c = SetRamYAddressStartEndPosition -> 4
      [] c = SetRamYAddressCounter -> 2
      [] c = DisplayUpdateControl1 -> 2
      [] c \in {SwReset, MasterActivation} -> 0
      [] OTHER -> 1

\* The controller S has received the command c in full.  A controller that
\* was reset and is not yet configured records the commands of the init
\* configuration, and is Ready once it has them all; a software reset
\* discards what was configured before it.  A Ready controller stays Ready
\* and a Sleeping one stays asleep, whatever it is sent.
Configured(S, c) ==
    IF S.power # "Uninitialized" \/ c \notin InitCmds THEN S
    ELSE LET got == IF c = SwReset THEN {SwReset} ELSE S.cfg \cup {c}
         IN  [S EXCEPT !.cfg = got,
                       !.power = IF got = InitCmds THEN "Ready" ELSE @]

RECURSIVE RegBytes(_, _, _)
RegBytes(S, d, i) ==
    IF i > Len(d) \/ i > 4 THEN S
    ELSE RegBytes(RegByte(S, S.argn + i - 1, d[i]), d, i + 1)

\* The controller receives the payload bytes d
CtlData(S, d) ==
    LET T == CASE S.reg = WriteRam ->
                    [S EXCEPT !.bw = RamWrite(S.bw, d, S.win, S.cur),
                              !.cur = CurAfter(Len(d), S.win, S.cur)]
               [] S.reg = WriteRamRed ->
                    [S EXCEPT !.red = RamWrite(S.red, d, S.win, S.cur),
                              !.cur = CurAfter(Len(d), S.win, S.cur)]
               [] OTHER -> RegBytes(S, d, 1)
        full == S.argn < PayloadLen(S.reg)
                /\ S.argn + Len(d) >= PayloadLen(S.reg)
    IN  [(IF full THEN Configured(T, S.reg) ELSE T)
            EXCEPT !.argn = S.argn + Len(d)]

\* The controller receives a command byte.  Software reset and master
\* activation start work during which the busy pin is high.
CtlCmd(S, c) ==
    LET T == [S EXCEPT !.reg = c, !.argn = 0,
                       !.busy = IF c \in {SwReset, MasterActivation}
                                THEN TRUE ELSE @,
                       !.mon = IF c \in RamCmds
                               THEN [wr |-> TRUE, cx |-> FALSE, cy |-> FALSE]
                               ELSE @]
    IN  IF PayloadLen(c) = 0 THEN Configured(T, c) ELSE T

\* DisplayInterface::reset: the reset pin is pulsed; the controller restarts,
\* awake (a reset is what ends deep sleep) and without configuration
CtlReset(S) ==
    [S EXCEPT !.reg = 0, !.argn = 0, !.busy = TRUE,
              !.power = "Uninitialized", !.cfg = {}]

\* DisplayInterface::is_busy
is_busy(pin_high) == (IS_BUSY_LOW /\ ~pin_high) \/ (~IS_BUSY_LOW /\ pin_high)

\* One instruction performed without a bus fault.  A busy-wait is performed
\* only once the pin is idle.
Exec(i, S) ==
    CASE i.t = "reset" -> [CtlReset(S) EXCEPT !.trace = Append(@, i)]
      [] i.t = "wait" -> [S EXCEPT !.trace = Append(@, i)]
      [] i.t = "cmd" -> [CtlCmd(S, i.c) EXCEPT !.trace = Append(@, i)]
      [] i.t = "data" -> [CtlData(S, i.d) EXCEPT !.trace = Append(@, i)]
      [] i.t = "panic" -> [S EXCEPT !.result = "panic"]

---------------------------------------------------------------------------
(* Inputs of the operations *)

ShortLen == PlaneSize - 1
LongLen == PlaneSize + 1

\* Caller buffers, by name: two full planes, a plane one byte short, a plane
\* one byte long, two small buffers for partial updates and the empty one.
BufLen(id) ==
    CASE id = "F1" -> PlaneSize
      [] id = "F2" -> PlaneSize
      [] id = "S" -> ShortLen
      [] id = "L" -> LongLen
      [] id = "P2" -> 2
      [] id = "P6" -> 6
      [] id = "E" -> 0
      [] OTHER -> 0

BufByte(id, i) ==
    IF id = "F2" THEN (3 * i) % 256 ELSE ((7 * i) + 1) % 251

Buffer(id) == [i \in 1..BufLen(id) |-> BufByte(id, i)]

NoArgs ==
    [name |-> "", buffer |-> "", chromatic |-> "", x |-> u32(0), y |-> u32(0),
     width |-> u32(0), height |-> u32(0), color |-> "", refresh_rate |-> ""]

Call0(n) == [NoArgs EXCEPT !.name = n]
CallBuf(n, b) == [NoArgs EXCEPT !.name = n, !.buffer = b]
CallPartial(b, x, y, w, h) ==
    [NoArgs EXCEPT !.name = "update_partial_frame", !.buffer = b,
                   !.x = x, !.y = y, !.width = w, !.height = h]

UpdateFrameCalls == {CallBuf("update_frame", b) : b \in {"F1", "S", "L"}}
UpdateAndDisplayCalls ==
    {CallBuf("update_and_display_frame", b) : b \in {"F2", "S"}}
\* Rectangles of the panel with a buffer of the right length, too short and
\* too long
InPanelCalls ==
    { CallPartial("P2", u32(0), u32(0), u32(8), u32(2)),
      CallPartial("P6", u32(8), u32(10), u32(16), u32(3)),
      CallPartial("P2", u32(8), u32(10), u32(16), u32(3)),
      CallPartial("P6", u32(0), u32(0), u32(8), u32(2)) }
\* Arguments on which the u32 arithmetic overflows: width * height = 2^32,
\* x + width = 2^32 + 7 and y + height = 2^32 + 1
OverflowCalls ==
    { CallPartial("E", u32(0), u32(0), u32(65536), u32(65536)),
      CallPartial("P2", u32_MAX, u32(0), u32(8), u32(2)),
      CallPartial("P2", u32(0), u32_MAX, u32(8), u32(2)) }
PartialCalls == InPanelCalls \cup OverflowCalls
ColorCalls ==
    { [NoArgs EXCEPT !.name = "update_color_frame", !.buffer = "F1",
                     !.chromatic = "F2"] }
PlaneCalls ==
    { CallBuf("update_achromatic_frame", "F2"),
      [NoArgs EXCEPT !.name = "update_chromatic_frame", !.chromatic = "F1"] }
LutCalls ==
    {[NoArgs EXCEPT !.name = "set_lut", !.refresh_rate = r] :
        r \in {"None", "Full", "Quick"}}

\* Operations on an existing driver that use the bus
BusCalls ==
    {Call0("wake_up"), Call0("sleep"), Call0("display_frame"),
     Call0("clear_frame"), Call0("wait_until_idle")}
    \cup UpdateFrameCalls \cup UpdateAndDisplayCalls \cup PartialCalls
    \cup ColorCalls \cup PlaneCalls \cup LutCalls

\* The instructions of a call, for the background colour at the call
Program(o, bg) ==
    CASE o.name = "new" -> new
      [] o.name = "wake_up" -> wake_up
      [] o.name = "sleep" -> sleep
      [] o.name = "update_frame" -> update_frame(Buffer(o.buffer), bg)
      [] o.name = "update_partial_frame" ->
            update_partial_frame(Buffer(o.buffer), o.x, o.y, o.width, o.height)
      [] o.name = "display_frame" -> display_frame
      [] o.name = "update_and_display_frame" ->
            update_and_display_frame(Buffer(o.buffer), bg)
      [] o.name = "clear_frame" -> clear_frame(bg)
      [] o.name = "set_lut" -> set_lut(o.refresh_rate)
      [] o.name = "wait_until_idle" -> wait_until_idle
      [] o.name = "update_color_frame" ->
            update_color_frame(Buffer(o.buffer), Buffer(o.chromatic))
      [] o.name = "update_achromatic_frame" ->
            update_achromatic_frame(Buffer(o.buffer))
      [] o.name = "update_chromatic_frame" ->
            update_chromatic_frame(Buffer(o.chromatic))

---------------------------------------------------------------------------
(* State machine *)

PowerOnByte == 17

\* The controller, as one value
Ctl ==
    [power |-> power, busy |-> busy, reg |-> reg, argn |-> argn, win |-> win,
     cur |-> cur, bw |-> bw, red |-> red, duc2 |-> duc2, cfg |-> cfg,
     mon |-> mon]

\* The controller C with the bus trace t and the result r of an operation
With(C, t, r) ==
    [power |-> C.power, busy |-> C.busy, reg |-> C.reg, argn |-> C.argn,
     win |-> C.win, cur |-> C.cur, bw |-> C.bw, red |-> C.red,
     duc2 |-> C.duc2, cfg |-> C.cfg, mon |-> C.mon, trace |-> t,
     result |-> r]

Sys == With(Ctl, trace, result)

\* What an operation must not disturb when it is rejected or sends nothing
Snapshot == [power |-> power, win |-> win, cur |-> cur, bw |-> bw, red |-> red]

Becomes(T) ==
    /\ power' = T.power /\ busy' = T.busy /\ reg' = T.reg /\ argn' = T.argn
    /\ win' = T.win /\ cur' = T.cur /\ bw' = T.bw /\ red' = T.red
    /\ duc2' = T.duc2 /\ cfg' = T.cfg /\ mon' = T.mon /\ trace' = T.trace
    /\ result' = T.result

ctlvars == << power, busy, reg, argn, win, cur, bw, red, duc2, cfg, mon >>

\* A getter's return value: a number (width, height) or a colour
NoRet == [n |-> 0, c |-> ""]
RetNum(v) == [n |-> v, c |-> ""]
RetColor(v) == [n |-> 0, c |-> v]

\* No encoder or helper is called on its own
NoHelper ==
    [fn |-> "", start_x |-> 0, start_y |-> 0, end_x |-> 0, end_y |-> 0,
     vbd |-> "", fix_level |-> "", gs_trans |-> "",
     scan_is_linear |-> FALSE, scan_g0_is_first |-> FALSE,
     scan_dir_incr |-> FALSE, width |-> 0]
NoOut == [done |-> FALSE, prog |-> << >>, byte |-> 0, bytes |-> << >>]

helpervars == << args, out >>

\* Controller powered on, no driver yet
PowerOn ==
    /\ created = FALSE
    /\ background_color = DEFAULT_BACKGROUND_COLOR
    /\ power = "Uninitialized"
    /\ busy = FALSE
    /\ reg = 0 /\ argn = 0
    /\ win = [xs |-> 0, xe |-> 0, ys |-> 0, ye |-> 0]
    /\ cur = [x |-> 0, y |-> 0]
    /\ bw = [a \in 1..PlaneSize |-> PowerOnByte]
    /\ red = [a \in 1..PlaneSize |-> PowerOnByte]
    /\ duc2 = 0
    /\ cfg = {}
    /\ op = NoArgs /\ prog = << >> /\ result = "none" /\ ret = NoRet
    /\ trace = << >>
    /\ mon = [wr |-> FALSE, cx |-> FALSE, cy |-> FALSE]
    /\ pre = Snapshot
    /\ nops = 0 /\ nfaults = 0
    /\ overflow_checks \in BOOLEAN

Init == PowerOn /\ args = NoHelper /\ out = NoOut

Idle == result \in {"none", "ok", "err"}

\* The running operation has performed its last instruction: it returns Ok
Finished(T) == [T EXCEPT !.result = "ok"]

\* Every call records the controller it starts from
Called == pre' = Snapshot

\* new: builds the driver with the default background and runs init
CallNew ==
    /\ Idle /\ ~created /\ nops < MaxOps
    /\ op' = Call0("new")
    /\ background_color' = DEFAULT_BACKGROUND_COLOR
    /\ prog' = Program(Call0("new"), DEFAULT_BACKGROUND_COLOR)
    /\ result' = "running" /\ ret' = NoRet /\ trace' = << >>
    /\ nops' = nops + 1
    /\ Called
    /\ UNCHANGED << created, ctlvars, nfaults >>
    /\ UNCHANGED << helpervars, overflow_checks >>

\* A bus operation is called on the driver
Call ==
    /\ Idle /\ created /\ nops < MaxOps
    /\ \E o \in BusCalls :
          /\ op' = o
          /\ prog' = Program(o, background_color)
    /\ result' = "running" /\ ret' = NoRet /\ trace' = << >>
    /\ nops' = nops + 1
    /\ Called
    /\ UNCHANGED << created, background_color, ctlvars, nfaults >>
    /\ UNCHANGED << helpervars, overflow_checks >>

set_background_color ==
    /\ Idle /\ created /\ nops < MaxOps
    /\ \E c \in TriColor :
          /\ background_color' = c
          /\ op' = [NoArgs EXCEPT !.name = "set_background_color", !.color = c]
    /\ result' = "ok" /\ ret' = NoRet /\ trace' = << >>
    /\ nops' = nops + 1
    /\ Called
    /\ UNCHANGED << created, ctlvars, prog, nfaults >>
    /\ UNCHANGED << helpervars, overflow_checks >>

\* background_color(), width(), height()
Getter ==
    /\ Idle /\ created /\ nops < MaxOps
    /\ \E n \in {"background_color", "width", "height"} :
          /\ op' = Call0(n)
          /\ ret' = CASE n = "background_color" -> RetColor(background_color)
                      [] n = "width" -> RetNum(width)
                      [] n = "height" -> RetNum(height)
    /\ result' = "ok" /\ trace' = << >>
    /\ nops' = nops + 1
    /\ Called
    /\ UNCHANGED << created, background_color, ctlvars, prog, nfaults >>
    /\ UNCHANGED << helpervars, overflow_checks >>

\* The running operation can perform its next instruction: a busy-wait goes
\* on only once the pin is idle
StepEnabled ==
    /\ result = "running"
    /\ prog # << >>
    /\ prog[1].t = "wait" => ~is_busy(busy)

\* The running operation performs its next instruction
Step ==
    /\ StepEnabled
    /\ \E T \in {Exec(prog[1], Sys)} :
          LET last == Len(prog) = 1 /\ T.result = "running"
          IN  /\ Becomes(IF last THEN Finished(T) ELSE T)
              /\ prog' = IF T.result = "running" THEN Tail(prog) ELSE << >>
              /\ created' = (created \/ (last /\ op.name = "new"))
    /\ UNCHANGED << background_color, op, pre, ret, nops, nfaults >>
    /\ UNCHANGED << helpervars, overflow_checks >>

\* wait_until_idle reads the busy pin at the busy level and reads it again
Poll ==
    /\ result = "running"
    /\ prog # << >>
    /\ prog[1].t = "wait"
    /\ is_busy(busy)
    /\ UNCHANGED vars

\* Where a payload of len bytes may be cut by a failing write: the write of
\* byte k+1 fails after k bytes went out
FailPoints(len) == {k \in {0, len - 1} : 0 <= k /\ k < len}

\* A bus write of the next instruction fails.  The bytes before the failing
\* one went out.  The error is returned to the caller of the operation,
\* which performs nothing more.
Fail ==
    /\ result = "running"
    /\ prog # << >>
    /\ nfaults < MaxFaults
    /\ prog[1].t \in {"cmd", "data"}
    /\ \E k \in FailPoints(IF prog[1].t = "cmd" THEN 1 ELSE Len(prog[1].d)) :
          LET T == IF prog[1].t = "cmd" \/ k = 0 THEN Sys
                   ELSE Exec(Data(SubSeq(prog[1].d, 1, k)), Sys)
              last == Len(prog) = 1
          IN  IF prog[1].q
              THEN /\ Becomes([T EXCEPT !.result = "err"])
                   /\ prog' = << >>
                   /\ created' = created
              ELSE /\ Becomes(IF last THEN Finished(T) ELSE T)
                   /\ prog' = Tail(prog)
                   /\ created' = (created \/ (last /\ op.name = "new"))
    /\ nfaults' = nfaults + 1
    /\ UNCHANGED << background_color, op, pre, ret, nops >>
    /\ UNCHANGED << helpervars, overflow_checks >>

\* The controller finishes what it was doing: the busy pin goes idle
BusyFalls ==
    /\ busy
    /\ busy' = FALSE
    /\ UNCHANGED << created, background_color, power, reg, argn, win, cur, bw,
                    red, duc2, cfg, op, pre, prog, result, ret, trace, mon,
                    nops, nfaults >>
    /\ UNCHANGED << helpervars, overflow_checks >>

Next ==
    \/ CallNew
    \/ Call
    \/ set_background_color
    \/ Getter
    \/ Step
    \/ Poll
    \/ Fail
    \/ BusyFalls

Spec == Init /\ [][Next]_vars

---------------------------------------------------------------------------
(* The private helpers and encoders called on their own, on arguments      *)
(* drawn at the start.                                                      *)

\* X coordinates of the panel at both ends of every RAM byte, and the last
XSample == {x \in 0..(WIDTH - 1) : x % 8 \in {0, 7}} \cup {WIDTH - 1}
\* Y coordinates of the panel: the first and the last rows
YSample == {0, 1, HEIGHT - 2, HEIGHT - 1}

RamAreaCalls ==
    {[NoHelper EXCEPT !.fn = "set_ram_area", !.start_x = sx, !.start_y = sy,
                      !.end_x = ex, !.end_y = ey] :
        sx \in XSample, ex \in XSample, sy \in YSample, ey \in YSample}

BorderWaveFormCalls ==
    {[NoHelper EXCEPT !.fn = "to_u8", !.vbd = v, !.fix_level = f,
                      !.gs_trans = g] :
        v \in DOMAIN BorderWaveFormVbd, f \in DOMAIN BorderWaveFormFixLevel,
        g \in DOMAIN BorderWaveFormGs}

\* Scan lengths (u16): around the byte boundary, the panel's, and the largest
WidthSample == {0, 1, HEIGHT - 1, 255, 256, 257, 511, 512, 65280, 65535}

DriverOutputCalls ==
    {[NoHelper EXCEPT !.fn = "to_bytes", !.scan_is_linear = l,
                      !.scan_g0_is_first = g, !.scan_dir_incr = d,
                      !.width = w] :
        l \in BOOLEAN, g \in BOOLEAN, d \in BOOLEAN, w \in WidthSample}

drivervars ==
    << created, background_color, ctlvars, op, pre, prog, result, ret,
       trace, nops, nfaults, overflow_checks >>

EncInit ==
    /\ PowerOn
    /\ args \in {c \in RamAreaCalls : c.start_x <= c.end_x
                                        /\ c.start_y <= c.end_y}
                \cup BorderWaveFormCalls \cup DriverOutputCalls
    /\ out = NoOut

\* set_ram_area is called: out.prog is what it sends
Call_set_ram_area ==
    /\ args.fn = "set_ram_area" /\ ~out.done
    /\ out' = [NoOut EXCEPT !.done = TRUE,
                            !.prog = set_ram_area(u32(args.start_x),
                                                  u32(args.start_y),
                                                  u32(args.end_x),
                                                  u32(args.end_y))]
    /\ UNCHANGED << drivervars, args >>

\* BorderWaveForm::to_u8 is called: out.byte is what it returns
Call_to_u8 ==
    /\ args.fn = "to_u8" /\ ~out.done
    /\ out' = [NoOut EXCEPT !.done = TRUE,
                            !.byte = BorderWaveForm_to_u8(
                                        [vbd |-> args.vbd,
                                         fix_level |-> args.fix_level,
                                         gs_trans |-> args.gs_trans])]
    /\ UNCHANGED << drivervars, args >>

\* DriverOutput::to_bytes is called: out.bytes is what it returns
Call_to_bytes ==
    /\ args.fn = "to_bytes" /\ ~out.done
    /\ out' = [NoOut EXCEPT !.done = TRUE,
                            !.bytes = DriverOutput_to_bytes(
                                         [scan_is_linear |-> args.scan_is_linear,
                                          scan_g0_is_first |-> args.scan_g0_is_first,
                                          scan_dir_incr |-> args.scan_dir_incr,
                                          width |-> args.width])]
    /\ UNCHANGED << drivervars, args >>

EncNext ==
    \/ Call_set_ram_area
    \/ Call_to_u8
    \/ Call_to_bytes

EncSpec == EncInit /\ [][EncNext]_vars

\* The driver keeps running the operation it is in, and the controller
\* finishes every busy period.  The first condition is WF_vars(Step) with
\* ENABLED <<Step>>_vars written out: Step is enabled exactly in the states
\* of StepEnabled, and every Step shortens prog.
FairSpec ==
    /\ Init /\ [][Next]_vars
    /\ (<>[]StepEnabled => []<><<Step>>_vars)
    /\ WF_vars(BusyFalls)

---------------------------------------------------------------------------
(* Running a whole operation in one go: every write succeeds and every     *)
(* busy-wait sees the pin go idle.                                          *)

RECURSIVE RunProg(_, _)
RunProg(p, S) ==
    IF p = << >> \/ S.result # "running" THEN S
    ELSE RunProg(Tail(p),
                 Exec(p[1], IF p[1].t = "wait" THEN [S EXCEPT !.busy = FALSE]
                            ELSE S))

\* The call o made in state S, with the bus trace continuing S.trace
RunOp(o, S, bg) ==
    LET T == RunProg(Program(o, bg), [S EXCEPT !.result = "running"])
    IN  IF T.result = "running" THEN Finished(T) ELSE T

\* The state in which op was called, as far as it was recorded; what was
\* not recorded is taken from the current state
PreSys ==
    [With(Ctl, << >>, "running") EXCEPT
        !.power = pre.power, !.win = pre.win, !.cur = pre.cur,
        !.bw = pre.bw, !.red = pre.red]

SnapshotOf(S) ==
    [power |-> S.power, win |-> S.win, cur |-> S.cur, bw |-> S.bw, red |-> S.red]

IsRamCmd(e) == e.t = "cmd" /\ e.c \in RamCmds

---------------------------------------------------------------------------
(* Claims *)

\* C1: update_and_display_frame(buf) is observationally equivalent to
\* update_frame(buf) followed by display_frame(): from the state it was
\* called in, both emit the same bus trace (commands, payload bytes,
\* busy-waits), return the same result and leave the same controller state
\* (power state, window, cursor, both RAM banks, staged update control,
\* busy pin); called in Ready and successful, that state is Ready.  A buffer
\* of the wrong length aborts both before anything is sent.
C1_UpdateAndDisplayIsUpdateThenDisplay ==
    (op.name = "update_and_display_frame" /\ result \in {"ok", "panic"}) =>
        LET U == RunOp(CallBuf("update_frame", op.buffer), PreSys,
                       background_color)
            B == IF U.result = "ok"
                 THEN RunOp(Call0("display_frame"), U, background_color)
                 ELSE U
        IN  /\ result = B.result
            /\ trace = B.trace
            /\ Snapshot = SnapshotOf(B)
            /\ result = "ok" =>
                  /\ busy = B.busy /\ reg = B.reg /\ argn = B.argn
                  /\ duc2 = B.duc2 /\ mon = B.mon
                  /\ pre.power = "Ready" => power = "Ready"

\* C1 witness: update_and_display_frame has succeeded on a Ready controller
\* and changed the achromatic bank
C1_Witness ==
    /\ op.name = "update_and_display_frame" /\ result = "ok"
    /\ pre.power = "Ready" /\ power = "Ready"
    /\ bw = Buffer(op.buffer) /\ pre.bw # bw
    /\ trace[Len(trace) - 1] = Cmd(MasterActivation)

\* C2: update_frame rejects every buffer whose length is not the plane size
\* (4000 bytes): the call aborts with nothing sent on the bus and with the
\* RAM banks, the window, the cursor and the power state as they were; a
\* buffer of 4000 bytes is not rejected.
C2_UpdateFrameRejectsWrongLength ==
    op.name = "update_frame" =>
        /\ PlaneSize = 4000
        /\ BufLen(op.buffer) # PlaneSize =>
              /\ result \in {"running", "panic"}
              /\ result = "running" => prog[1] = Panic
              /\ trace = << >>
              /\ Snapshot = pre
        /\ BufLen(op.buffer) = PlaneSize => result # "panic"

\* C2 witness: update_frame was called with a buffer one byte short and
\* has aborted
C2_Witness ==
    /\ op.name = "update_frame" /\ BufLen(op.buffer) = PlaneSize - 1
    /\ result = "panic" /\ trace = << >>

\* C3: in update_frame, clear_frame and update_partial_frame every RAM write
\* command (0x24, 0x26) is immediately preceded, in the same operation, by
\* 0x44 and 0x45 with their payloads, then a busy-wait, then 0x4E and 0x4F
\* with the start corner of the window just programmed; when the RAM write
\* command arrives the cursor is at the origin of the window.
C3_Preceded(i) ==
    /\ i > 9
    /\ trace[i - 9] = Cmd(SetRamXAddressStartEndPosition)
    /\ trace[i - 8].t = "data" /\ Len(trace[i - 8].d) = 2
    /\ trace[i - 7] = Cmd(SetRamYAddressStartEndPosition)
    /\ trace[i - 6].t = "data" /\ Len(trace[i - 6].d) = 4
    /\ trace[i - 5] = Wait
    /\ trace[i - 4] = Cmd(SetRamXAddressCounter)
    /\ trace[i - 3] = Data(<< trace[i - 8].d[1] >>)
    /\ trace[i - 2] = Cmd(SetRamYAddressCounter)
    /\ trace[i - 1] = Data(<< trace[i - 6].d[1], trace[i - 6].d[2] >>)

C3_WindowThenCursorBeforeRamWrite ==
    op.name \in {"update_frame", "clear_frame", "update_partial_frame"} =>
        /\ \A i \in 1..Len(trace) : IsRamCmd(trace[i]) => C3_Preceded(i)
        /\ (trace # << >> /\ IsRamCmd(trace[Len(trace)])) =>
              /\ cur.x = win.xs /\ cur.y = win.ys
              /\ mon.wr /\ ~mon.cx /\ ~mon.cy

\* C3 witness: a partial update away from the panel origin has written both
\* banks
C3_Witness ==
    /\ op.name = "update_partial_frame" /\ result = "ok"
    /\ op.x.hi = 0 /\ op.x.lo > 0
    /\ Cardinality({i \in 1..Len(trace) : IsRamCmd(trace[i])}) = 2

\* C4: between two consecutive RAM write commands (0x24, 0x26) sent by any
\* public operations, the counters 0x4E and 0x4F have been set to the origin
\* of the current window: no RAM write command follows an earlier one
\* without them (stated for runs without a bus fault).
C4_CursorResetBetweenRamWrites ==
    [][ ( /\ nfaults = 0
          /\ result = "running" /\ prog # << >>
          /\ IsRamCmd(prog[1])
          /\ trace' = Append(trace, prog[1])
          /\ mon.wr )
        => (mon.cx /\ mon.cy) ]_vars

FillPlane(c) == [a \in 1..PlaneSize |-> get_byte_value(c)]

\* C5: clear_frame is idempotent on the RAM banks: whenever it has
\* succeeded, each of the 4000 bytes of both banks is the byte of the
\* background colour, and calling it once more leaves both banks as they are.
C5_ClearFrameIdempotent ==
    (op.name = "clear_frame" /\ result = "ok") =>
        /\ PlaneSize = 4000
        /\ bw = FillPlane(background_color)
        /\ red = FillPlane(background_color)
        /\ LET T == RunOp(Call0("clear_frame"), Sys, background_color)
           IN  T.result = "ok" /\ T.bw = bw /\ T.red = red

\* C5 witness: clear_frame has succeeded a second time in a row, on banks
\* that the first call had filled over the power-on content
C5_Witness ==
    /\ op.name = "clear_frame" /\ result = "ok" /\ pre.power = "Ready"
    /\ pre.bw = FillPlane(background_color)
    /\ pre.red = FillPlane(background_color)
    /\ bw = pre.bw /\ red = pre.red
    /\ bw[1] # PowerOnByte

LastTwo(tr) == SubSeq(tr, Len(tr) - 1, Len(tr))

\* C6: the power state follows Uninitialized -> Ready -> Sleeping -> Ready.
\* Until new has succeeded the controller is Uninitialized between calls; a
\* successful new leaves it Ready; a successful sleep leaves it Sleeping
\* and ends with 0x10 and the normal mode code; a successful wake_up leaves
\* it Ready; a controller that was Sleeping when an operation was called is
\* awake only if the operation is wake_up; a controller becomes Ready only
\* in new and wake_up, and one that was Ready is not Ready only in sleep,
\* which put it to sleep, or in a wake_up that has reset it and has not
\* (yet) configured it again.
C6_PowerStateMachine ==
    /\ (~created /\ Idle) => power = "Uninitialized"
    /\ (op.name = "new" /\ result = "ok") =>
          (pre.power = "Uninitialized" /\ power = "Ready")
    /\ (op.name = "sleep" /\ result = "ok") =>
          /\ power = "Sleeping"
          /\ LastTwo(trace) = << Cmd(DeepSleepModeCmd),
                                 Data(<< DeepSleepMode.Normal >>) >>
    /\ (op.name = "wake_up" /\ result = "ok") => power = "Ready"
    /\ (pre.power = "Sleeping" /\ power # "Sleeping") => op.name = "wake_up"
    /\ (pre.power # "Ready" /\ power = "Ready") =>
          op.name \in {"new", "wake_up"}
    /\ (pre.power = "Ready" /\ power # "Ready") =>
          \/ op.name = "sleep" /\ power = "Sleeping"
          \/ op.name = "wake_up" /\ power = "Uninitialized" /\ result # "ok"

\* C6 witness: wake_up has brought a sleeping controller back to Ready
C6_Witness ==
    /\ op.name = "wake_up" /\ result = "ok"
    /\ pre.power = "Sleeping" /\ power = "Ready"

FrameOps ==
    {"update_frame", "update_partial_frame", "update_color_frame",
     "update_achromatic_frame", "update_chromatic_frame", "clear_frame",
     "display_frame", "update_and_display_frame"}

\* C7: a frame operation called while the controller is Sleeping is
\* rejected: it does not succeed and sends no RAM write command (0x24, 0x26)
\* and no master activation (0x20).
C7_FrameOpsGuardedWhileSleeping ==
    (pre.power = "Sleeping" /\ op.name \in FrameOps) =>
        /\ result # "ok"
        /\ \A i \in 1..Len(trace) :
              ~(trace[i].t = "cmd"
                /\ trace[i].c \in RamCmds \cup {MasterActivation})

\* The trace tr is what the program P sends up to a failed write: the
\* instructions of P in order, the last payload possibly cut short, and not
\* all of P
IsCutTrace(tr, P) ==
    /\ Len(tr) <= Len(P)
    /\ \A i \in 1..Len(tr) :
          \/ tr[i] = P[i]
          \/ /\ i = Len(tr)
             /\ tr[i].t = "data" /\ P[i].t = "data"
             /\ Len(tr[i].d) < Len(P[i].d)
             /\ tr[i].d = SubSeq(P[i].d, 1, Len(tr[i].d))
    /\ \/ Len(tr) < Len(P)
       \/ tr[Len(tr)] # P[Len(tr)]

HasCmd(tr, c) == \E i \in 1..Len(tr) : tr[i] = Cmd(c)

\* C8: a failed bus write ends the operation with the error: the operation
\* returns Err at that write and performs no instruction after it, so what
\* it sent is its program up to the failed write, nothing repeated; new
\* returns no driver; update_and_display_frame does not display when
\* update_frame failed.
C8_BusErrorsSurface ==
    /\ [][ nfaults' # nfaults =>
            (result' = "err" /\ prog' = << >> /\ created' = created) ]_vars
    /\ [](result = "err" =>
            /\ nfaults > 0 /\ prog = << >>
            /\ IsCutTrace(trace, Program(op, background_color))
            /\ op.name = "new" => ~created
            /\ (op.name = "update_and_display_frame"
                /\ Len(trace) < Len(update_frame(Buffer(op.buffer),
                                                 background_color)))
                  => (~HasCmd(trace, MasterActivation)
                      /\ ~HasCmd(trace, DisplayUpdateControl2Cmd)))

\* C8 witness: update_and_display_frame has failed on the last byte of the
\* plane and returned the error without displaying
C8_Witness ==
    /\ op.name = "update_and_display_frame" /\ result = "err"
    /\ trace # << >>
    /\ trace[Len(trace)].t = "data"
    /\ Len(trace[Len(trace)].d) = PlaneSize - 1
    /\ ~HasCmd(trace, MasterActivation)

AtWait == result = "running" /\ prog # << >> /\ prog[1].t = "wait"

\* C9: wait_until_idle has no deadline and busy is the high level: a
\* busy-wait completes only in a state where the pin is low, and while the
\* pin stays high the waiting operation neither returns nor sends anything;
\* if the controller ends every busy period, every operation returns.
C9_WaitUntilIdle ==
    /\ [][ (AtWait /\ busy /\ busy') =>
            (prog' = prog /\ trace' = trace /\ result' = "running") ]_vars
    /\ [][ (AtWait /\ prog' # prog) =>
            (~busy /\ trace' = Append(trace, Wait)) ]_vars
    /\ (result = "running") ~> (result # "running")

\* C9 witness: an operation is in a busy-wait and the pin is high
C9_Witness == AtWait /\ busy /\ op.name = "display_frame" /\ trace # << >>

\* C10: the geometry is fixed and the default background is white: width()
\* returns 122 and height() 250 in every state, a new driver has the White
\* background, and the background changes only by set_background_color,
\* which sets the given colour, sends nothing and leaves power state, window,
\* cursor and RAM as they are.
C10_GeometryAndBackground ==
    /\ [](/\ op.name = "width" => ret = RetNum(122)
          /\ op.name = "height" => ret = RetNum(250)
          /\ op.name = "background_color" => ret = RetColor(background_color)
          /\ op.name = "new" => background_color = "White"
          /\ ~created => background_color = "White"
          /\ op.name = "set_background_color" =>
                /\ background_color = op.color
                /\ result = "ok" /\ trace = << >> /\ Snapshot = pre)
    /\ [][ background_color' # background_color =>
            op'.name = "set_background_color" ]_vars

\* C10 witness: set_background_color has changed the background of a Ready
\* driver to black
C10_Witness ==
    /\ op.name = "set_background_color" /\ op.color = "Black"
    /\ background_color = "Black" /\ power = "Ready" /\ trace = << >>

IsPrefix(p, tr) == Len(p) <= Len(tr) /\ p = SubSeq(tr, 1, Len(p))

\* C11: init, run by new and by wake_up, sends exactly: reset, wait, 0x12,
\* wait, 0x01 [F9 00 00], 0x11 [03], 0x44 [00 0F], 0x45 [00 00 F9 00], wait,
\* 0x4E [00], 0x4F [00 00], 0x3C [03], 0x18 [80], 0x21 [80 80], wait.  A
\* successful new or wake_up has this trace, and a running or failed one a
\* part of it from the start.
C11_InitTrace ==
    LET expected ==
          << Reset, Wait, Cmd(18), Wait,
             Cmd(1), Data(<< 249, 0, 0 >>),
             Cmd(17), Data(<< 3 >>),
             Cmd(68), Data(<< 0, 15 >>),
             Cmd(69), Data(<< 0, 0, 249, 0 >>),
             Wait,
             Cmd(78), Data(<< 0 >>),
             Cmd(79), Data(<< 0, 0 >>),
             Cmd(60), Data(<< 3 >>),
             Cmd(24), Data(<< 128 >>),
             Cmd(33), Data(<< 128, 128 >>),
             Wait >>
    IN  op.name \in {"new", "wake_up"} =>
          /\ result = "ok" => trace = expected
          /\ result = "running" => IsPrefix(trace, expected)
          /\ result = "err" => IsCutTrace(trace, expected)

\* C11 witness: wake_up has succeeded on a sleeping controller, after the
\* new that created the driver
C11_Witness ==
    /\ op.name = "wake_up" /\ result = "ok" /\ pre.power = "Sleeping"
    /\ Len(trace) = 24 /\ trace[24] = Wait /\ trace[19] = Data(<< 3 >>)

MakesBusy(e) ==
    e.t = "reset" \/ (e.t = "cmd" /\ e.c \in {SwReset, MasterActivation})

\* C12: what an operation sends next after a hardware reset, a software
\* reset 0x12 or a master activation 0x20 is never a command byte: a
\* busy-wait comes first (stated for runs without a bus fault).
C12_WaitAfterBusyStep ==
    nfaults = 0 =>
        \A i \in 1..(Len(trace) - 1) :
            MakesBusy(trace[i]) => trace[i + 1].t # "cmd"

\* C13: after a successful update_frame(buffer) called in Ready with a
\* buffer of 4000 bytes, byte i of the achromatic bank is buffer[i] for
\* every i, and every byte of the chromatic bank is the byte of the
\* background colour, whatever banks, window and cursor held at the call.
C13_UpdateFrameRamContent ==
    (op.name = "update_frame" /\ result = "ok" /\ pre.power = "Ready") =>
        /\ Len(Buffer(op.buffer)) = 4000
        /\ \A i \in 1..4000 : bw[i] = Buffer(op.buffer)[i]
        /\ \A i \in 1..4000 : red[i] = get_byte_value(background_color)
        /\ DOMAIN bw = 1..4000 /\ DOMAIN red = 1..4000

\* The window init and the full-frame operations program
FullWindow == [xs |-> 0, xe |-> RowLen - 1, ys |-> 0, ye |-> HEIGHT - 1]

\* C13 witness: update_frame has succeeded where a partial update had left
\* a smaller window, a cursor away from the origin and other bank contents
C13_Witness ==
    /\ op.name = "update_frame" /\ result = "ok" /\ pre.power = "Ready"
    /\ pre.win # FullWindow
    /\ pre.bw # bw /\ pre.red # red
    /\ bw = Buffer("F1")

\* Bank index (from 1) of RAM byte xb of row y
Addr(xb, y) == y * RowLen + xb + 1

\* RAM byte (xb, y) holds pixels of the rectangle (x, y0, w, h)
InRect(xb, y, x, y0, w, h) ==
    /\ x \div 8 <= xb /\ xb <= (x + w - 1) \div 8
    /\ y0 <= y /\ y <= y0 + h - 1

\* The four coordinates of the call o are below 2^16: their low halves are
\* their values
Below16(o) == o.x.hi = 0 /\ o.y.hi = 0 /\ o.width.hi = 0 /\ o.height.hi = 0

\* C14: a successful update_partial_frame(buffer, x, y, width, height), for
\* coordinates below 2^16, has programmed the window with start (x, y) and
\* inclusive end (x + width - 1, y + height - 1); for byte-aligned x and
\* width the window holds width*height/8 RAM bytes, and no RAM byte outside
\* the rectangle has changed in either bank.
C14_PartialWindowInclusiveEnd ==
    (op.name = "update_partial_frame" /\ result = "ok" /\ Below16(op)) =>
        LET x == op.x.lo
            y0 == op.y.lo
            w == op.width.lo
            h == op.height.lo
        IN  /\ win = [xs |-> x \div 8, xe |-> (x + w - 1) \div 8,
                      ys |-> y0, ye |-> y0 + h - 1]
            /\ (x % 8 = 0 /\ w % 8 = 0) => WinCells(win) = (w * h) \div 8
            /\ \A xb \in 0..(RowLen - 1), y \in 0..(HEIGHT - 1) :
                  ~InRect(xb, y, x, y0, w, h) =>
                      /\ bw[Addr(xb, y)] = pre.bw[Addr(xb, y)]
                      /\ red[Addr(xb, y)] = pre.red[Addr(xb, y)]

\* width * height / 8 of the call o, computed without overflow (on the full
\* product), is n, a buffer length below 2^13
NeedIs(o, n) ==
    LET P == widening_mul(o.width, o.height)
    IN  /\ \A k \in 3..8 : P[k] = 0
        /\ (P[1] + 256 * P[2]) \div 8 = n

\* C15: update_partial_frame rejects every call whose buffer length is not
\* width*height/8: the call aborts with nothing sent on the bus and with the
\* RAM banks, the window, the cursor and the power state as they were; a
\* call whose buffer length is width*height/8 is not rejected.
C15_PartialRejectsWrongLength ==
    op.name = "update_partial_frame" =>
        /\ ~NeedIs(op, BufLen(op.buffer)) =>
              /\ result \in {"running", "panic"}
              /\ result = "running" => prog[1] = Panic
              /\ trace = << >>
              /\ Snapshot = pre
        /\ NeedIs(op, BufLen(op.buffer)) => result # "panic"

AddressCmds ==
    {SetRamXAddressStartEndPosition, SetRamYAddressStartEndPosition,
     SetRamXAddressCounter, SetRamYAddressCounter}

\* What display_frame sends, byte for byte
DisplayFrameTrace == << Cmd(34), Data(<< 247 >>), Cmd(32), Wait >>

\* C16: display_frame sends exactly 0x22 with one flags byte that stages all
\* seven actions (0xF7), then 0x20, then waits for idle; it sends no RAM
\* write, window or counter command, and it returns Ok only by a busy-wait
\* that read the pin idle after 0x20.
C16_DisplayFrameTrace ==
    /\ [](op.name = "display_frame" =>
            /\ result = "ok" =>
                  /\ trace = DisplayFrameTrace
                  /\ \A a \in DOMAIN DucBit : HasBit(duc2, DucBit[a])
            /\ result = "running" => IsPrefix(trace, DisplayFrameTrace)
            /\ result = "err" => IsCutTrace(trace, DisplayFrameTrace)
            /\ \A i \in 1..Len(trace) :
                  trace[i].t = "cmd" =>
                      trace[i].c \notin (RamCmds \cup AddressCmds))
    /\ [][ (op.name = "display_frame" /\ result = "running"
            /\ result' = "ok")
           => (/\ ~busy
               /\ trace[Len(trace)] = Cmd(MasterActivation)
               /\ trace' = Append(trace, Wait)) ]_vars

\* C16 witness: display_frame has returned Ok after its 0x20 made the
\* controller busy and the busy period ended
C16_Witness ==
    /\ op.name = "display_frame" /\ result = "ok"
    /\ Len(trace) = 4 /\ trace[4] = Wait /\ duc2 = 247 /\ ~busy

\* What sleep sends, byte for byte
SleepTrace ==
    << Wait, Cmd(34), Data(<< 195 >>), Cmd(32), Cmd(16), Data(<< 0 >>) >>

\* C17: sleep sends exactly: a busy-wait, 0x22 with the flags byte that
\* stages enable and disable of analog and clock and nothing else (0xC3),
\* 0x20, then 0x10 with the normal mode code 0x00 as its last command;
\* its first bus event is the busy-wait, completed with the pin idle.
C17_SleepTrace ==
    /\ [](op.name = "sleep" =>
            /\ result = "ok" =>
                  /\ trace = SleepTrace
                  /\ \A a \in DOMAIN DucBit :
                        HasBit(duc2, DucBit[a]) <=>
                            a \in {"enable_analog", "enable_clock",
                                   "disable_analog", "disable_clock"}
            /\ result = "running" => IsPrefix(trace, SleepTrace)
            /\ result = "err" => IsCutTrace(trace, SleepTrace))
    /\ [][ (op.name = "sleep" /\ result = "running" /\ trace = << >>
            /\ trace' # << >>)
           => (~busy /\ trace' = << Wait >>) ]_vars

\* C17 witness: sleep has succeeded and the controller sleeps
C17_Witness ==
    /\ op.name = "sleep" /\ result = "ok" /\ power = "Sleeping"
    /\ Len(trace) = 6 /\ trace[1] = Wait /\ duc2 = 195

\* C18: update_color_frame(black, chromatic) sends exactly: busy-wait, 0x24,
\* the bytes of black in order, busy-wait, 0x26, the bytes of chromatic in
\* order and not inverted, busy-wait; trace, result and controller state are
\* those of update_achromatic_frame(black) followed by
\* update_chromatic_frame(chromatic); a running or failed call has sent a
\* part of that trace from its start, so no chromatic byte precedes the
\* achromatic ones.
C18_ColorFrameOrder ==
    op.name = "update_color_frame" =>
        LET black == [i \in 1..BufLen(op.buffer) |-> BufByte(op.buffer, i)]
            chromatic ==
                [i \in 1..BufLen(op.chromatic) |-> BufByte(op.chromatic, i)]
            expected == << Wait, Cmd(36), Data(black),
                           Wait, Cmd(38), Data(chromatic), Wait >>
        IN  /\ result = "running" => IsPrefix(trace, expected)
            /\ result = "err" => IsCutTrace(trace, expected)
            /\ result = "ok" =>
                  LET A == RunOp(CallBuf("update_achromatic_frame", op.buffer),
                                 PreSys, background_color)
                      B == RunOp([NoArgs EXCEPT
                                     !.name = "update_chromatic_frame",
                                     !.chromatic = op.chromatic],
                                 A, background_color)
                  IN  /\ trace = expected
                      /\ A.result = "ok" /\ B.result = "ok"
                      /\ trace = B.trace
                      /\ Snapshot = SnapshotOf(B)

\* C18 witness: update_color_frame has succeeded with two different planes
C18_Witness ==
    /\ op.name = "update_color_frame" /\ result = "ok"
    /\ Len(trace) = 7
    /\ trace[3].d # trace[6].d
    /\ trace[6].d[1] = BufByte(op.chromatic, 1)

\* C19: for coordinates inside the panel with start <= end, set_ram_area
\* sends 0x44 with [start_x >> 3, end_x >> 3], then 0x45 with the two Y
\* values as low byte, high byte; X is rounded down to whole bytes, never
\* up; the full panel (0, 0, 121, 249) gives [00 0F] and [00 00 F9 00].
C19_SetRamAreaPayloads ==
    (args.fn = "set_ram_area" /\ out.done) =>
        LET p == out.prog
            X == IF Len(p) = 4 THEN p[2].d ELSE << >>
            Y == IF Len(p) = 4 THEN p[4].d ELSE << >>
        IN  /\ Len(p) = 4
            /\ p[1] = Cmd(68) /\ p[3] = Cmd(69)
            /\ p[2].t = "data" /\ p[4].t = "data"
            /\ Len(X) = 2 /\ Len(Y) = 4
            /\ \A i \in 1..2 : X[i] \in 0..255
            /\ \A i \in 1..4 : Y[i] \in 0..255
            /\ 8 * X[1] <= args.start_x /\ args.start_x <= 8 * X[1] + 7
            /\ 8 * X[2] <= args.end_x /\ args.end_x <= 8 * X[2] + 7
            /\ Y[1] + 256 * Y[2] = args.start_y
            /\ Y[3] + 256 * Y[4] = args.end_y
            /\ ( /\ args.start_x = 0 /\ args.start_y = 0
                 /\ args.end_x = 121 /\ args.end_y = 249 )
               => (X = << 0, 15 >> /\ Y = << 0, 0, 249, 0 >>)

\* C19 witness: set_ram_area was called for the full panel
C19_Witness ==
    /\ args.fn = "set_ram_area" /\ out.done
    /\ args.start_x = 0 /\ args.start_y = 0
    /\ args.end_x = 121 /\ args.end_y = 249
    /\ out.prog[2].d = << 0, 15 >>

\* C20: for every border waveform (VBD Gs=0, FixLevel=1, Vcom=2; fix level
\* Vss=0 .. Vsh2=3; GS transition Lut0=0 .. Lut3=3), to_u8 returns
\* (vbd << 6) | (fix_level << 4) | gs_transition: bits 2 and 3 are zero, the
\* three options can be read back from the byte (so different options give
\* different bytes), (Gs, Vss, Lut3) gives 0x03 and (Vcom, Vsh1, Lut0) 0x90.
C20_BorderWaveFormByte ==
    (args.fn = "to_u8" /\ out.done) =>
        LET vbd == [Gs |-> 0, FixLevel |-> 1, Vcom |-> 2][args.vbd]
            fix == [Vss |-> 0, Vsh1 |-> 1, Vsl |-> 2, Vsh2 |-> 3][args.fix_level]
            gs == [Lut0 |-> 0, Lut1 |-> 1, Lut2 |-> 2, Lut3 |-> 3][args.gs_trans]
            b == out.byte
        IN  /\ b \in 0..255
            /\ b = 64 * vbd + 16 * fix + gs
            /\ b \div 64 = vbd /\ (b \div 16) % 4 = fix /\ b % 4 = gs
            /\ (b \div 4) % 4 = 0
            /\ (args.vbd = "Gs" /\ args.fix_level = "Vss"
                /\ args.gs_trans = "Lut3") => b = 3
            /\ (args.vbd = "Vcom" /\ args.fix_level = "Vsh1"
                /\ args.gs_trans = "Lut0") => b = 144

\* C20 witness: to_u8 was called on (Vcom, Vsh1, Lut0)
C20_Witness ==
    /\ args.fn = "to_u8" /\ out.done
    /\ args.vbd = "Vcom" /\ args.fix_level = "Vsh1" /\ args.gs_trans = "Lut0"
    /\ out.byte = 144

\* C21: for every 16-bit scan length and every combination of the three
\* scan flags, to_bytes returns three bytes: the scan length as low byte,
\* high byte, then the flags byte with bit 0 set exactly when the scan
\* direction is not increasing, bit 1 exactly when G0 is not first, bit 2
\* exactly when the scan is not linear, and bits 3 to 7 zero; 249 with all
\* three flags true gives [F9 00 00].
C21_DriverOutputBytes ==
    (args.fn = "to_bytes" /\ out.done) =>
        LET b == out.bytes
            flags == IF Len(b) = 3 THEN b[3] ELSE 0
        IN  /\ Len(b) = 3
            /\ \A i \in 1..3 : b[i] \in 0..255
            /\ b[1] + 256 * b[2] = args.width
            /\ (flags % 2 = 1) <=> ~args.scan_dir_incr
            /\ ((flags \div 2) % 2 = 1) <=> ~args.scan_g0_is_first
            /\ ((flags \div 4) % 2 = 1) <=> ~args.scan_is_linear
            /\ flags \div 8 = 0
            /\ ( /\ args.width = 249 /\ args.scan_dir_incr
                 /\ args.scan_g0_is_first /\ args.scan_is_linear )
               => b = << 249, 0, 0 >>

\* C21 witness: to_bytes was called on a scan length above 255 with the
\* scan not linear and the direction not increasing
C21_Witness ==
    /\ args.fn = "to_bytes" /\ out.done
    /\ args.width = 65280 /\ ~args.scan_is_linear /\ args.scan_g0_is_first
    /\ ~args.scan_dir_incr
    /\ out.bytes = << 0, 255, 5 >>

\* The operations that send master activation
ActivatingOps == {"display_frame", "update_and_display_frame", "sleep"}

\* The staged display-update-control-2 byte v has the display action
StagesDisplay(v) == HasBit(v, DucBit.display)

\* C22: only display_frame, alone or inside update_and_display_frame,
\* triggers a refresh: no other operation than these two and sleep ever
\* sends 0x20; whenever 0x20 is sent with the display action staged by the
\* last 0x22 byte, the operation is display_frame or
\* update_and_display_frame; the 0x20 of sleep is sent with the display
\* action not staged.
C22_OnlyDisplayFrameRefreshes ==
    /\ [](HasCmd(trace, MasterActivation) => op.name \in ActivatingOps)
    /\ [][ (result = "running" /\ trace' = Append(trace, Cmd(MasterActivation)))
           => /\ op.name \in ActivatingOps
              /\ trace # << >> /\ trace[Len(trace)].t = "data"
              /\ trace[Len(trace) - 1] = Cmd(DisplayUpdateControl2Cmd)
              /\ trace[Len(trace)].d = << duc2 >>
              /\ StagesDisplay(duc2) <=>
                    op.name \in {"display_frame", "update_and_display_frame"}
              /\ op.name = "sleep" => ~StagesDisplay(duc2) ]_vars

\* C22 witness: sleep has sent its 0x20, the display action not staged, on
\* a controller whose banks a frame operation had written
C22_Witness ==
    /\ op.name = "sleep" /\ HasCmd(trace, MasterActivation)
    /\ ~StagesDisplay(duc2) /\ duc2 = 195
    /\ pre.bw[1] # PowerOnByte

=======================================================================
